---- MODULE Spec2Model ----
\* Model of RateLimiter (src/rate_limiter.py): the rolling request log, the
\* requests-per-minute gate, the minimum delay, the noise delay, exponential
\* backoff with jitter, identity rotation, and the reentrant lock every
\* method takes.
\*
\* Units: clock readings and delays are whole seconds.  The duration returned
\* by handle_rate_limit_error is kept in tenths of a second so that the jitter
\* factor 1.0 + uniform(-0.2, 0.2) stays exact: factor = (10 + j) / 10.
EXTENDS Integers, Sequences, FiniteSets, TLC

VARIABLES
    config,                 \* self.config
    last_request_time,      \* self.last_request_time
    request_times,          \* self.request_times (deque, maxlen 60)
    error_count,            \* self.error_count
    current_backoff,        \* self.current_backoff
    current_user_agent_idx, \* self.current_user_agent_idx
    current_proxy_idx,      \* self.current_proxy_idx
    proxies,                \* self.proxies
    lock,                   \* self.lock: [owner, count] of the RLock
    now,                    \* the reading time.time() gives
    pc,                     \* per thread: where it is inside wait_if_needed
    local,                  \* per thread: the locals of wait_if_needed
    signals,                \* history: how many handle_rate_limit_error calls were made
    stored,                 \* the "rate_limiter" section of the application's configuration file
    op                      \* the operation that made the last step, its argument and result

vars == <<config, last_request_time, request_times, error_count, current_backoff,
          current_user_agent_idx, current_proxy_idx, proxies, lock, now, pc, local,
          signals, stored, op>>

\* ---------------------------------------------------------------- bounds

StartTime == 1000    \* the clock reading at construction (epoch seconds are far from 0)
Horizon == 3         \* the clock is explored up to StartTime + Horizon under Spec
WorkerHorizon == 130 \* the clock is explored up to StartTime + WorkerHorizon under SpecWorker
MaxLog == 1          \* record_request calls explored under Spec
MaxSignals == 3      \* handle_rate_limit_error calls explored under Spec
WorkerLog == 3       \* record_request calls explored under SpecWorker
PacingHorizon == 64  \* the clock is explored up to StartTime + PacingHorizon under SpecPacing
PacingLog == 1       \* record_request calls explored under SpecPacing
BackoffSignals == 12 \* handle_rate_limit_error calls explored under SpecBackoff
BurstPerInstant == 31 \* record_request calls per clock reading explored under SpecBurst
BurstHorizon == 60   \* the clock is explored up to StartTime + BurstHorizon under SpecBurst
ClockHorizon == 6    \* the clock is explored up to StartTime + ClockHorizon under SpecClock
ClockFloor == 5      \* the clock is set back to no less than StartTime - ClockFloor under SpecClock
ClockLog == 1        \* record_request calls explored under SpecClock
ScenarioLimit == 3   \* largest rpm_limit, and record_request calls, explored under SpecScenario
ScenarioHorizon == 101 \* the clock is explored up to StartTime + ScenarioHorizon under SpecScenario
LifecycleSignals == 2 \* handle_rate_limit_error calls explored under SpecLifecycle
LifecycleLog == 1    \* record_request calls explored under SpecLifecycle
LifecycleHorizon == 3 \* the clock is explored up to StartTime + LifecycleHorizon under SpecLifecycle
ElapsedHorizon == 6  \* the clock is explored up to StartTime + ElapsedHorizon under SpecElapsed
ElapsedLog == 1      \* record_request calls explored under SpecElapsed
AppSignals == 2      \* handle_rate_limit_error calls explored under SpecApp
ThreadSignals == 3   \* handle_rate_limit_error calls started under SpecThreads
CeilingPerInstant == 61  \* record_request calls per clock reading under SpecCeiling
CeilingHorizon == 30     \* seconds of clock explored under SpecCeiling
LiveSignals == 2     \* handle_rate_limit_error calls started under SpecLive
LiveLog == 2         \* paced requests started under SpecLive
LiveHorizon == 140   \* seconds of clock explored under SpecLive

\* ---------------------------------------------------------------- program constants

Window == 60         \* minute_ago = current_time - 60
RpmMargin == 61      \* wait_time = 61 - (current_time - oldest_in_window)
MaxLen == 60         \* deque(maxlen=60)
JitterTenths == 2    \* random.uniform(-0.2, 0.2), in tenths

Threads == {"t1", "t2"}
NoThread == "none"

Min(a, b) == IF a <= b THEN a ELSE b
Max(a, b) == IF a >= b THEN a ELSE b

SeqMin(s) == CHOOSE x \in {s[i] : i \in DOMAIN s} : \A i \in DOMAIN s : x <= s[i]

\* ---------------------------------------------------------------- __init__

DefaultConfig ==
    [min_delay |-> 1, max_delay |-> 3, rpm_limit |-> 20,
     browser |-> "chrome", headless |-> FALSE, use_proxies |-> FALSE,
     initial_backoff |-> 5, max_backoff |-> 300, backoff_factor |-> 2]

user_agents ==
    << "Mozilla/5.0 (Windows NT 10.0; Win64; x64) AppleWebKit/537.36 (KHTML, like Gecko) Chrome/91.0.4472.124 Safari/537.36",
       "Mozilla/5.0 (Macintosh; Intel Mac OS X 10_15_7) AppleWebKit/537.36 (KHTML, like Gecko) Chrome/91.0.4472.124 Safari/537.36",
       "Mozilla/5.0 (Windows NT 10.0; Win64; x64; rv:89.0) Gecko/20100101 Firefox/89.0",
       "Mozilla/5.0 (Macintosh; Intel Mac OS X 10_15_7) AppleWebKit/605.1.15 (KHTML, like Gecko) Version/14.1.1 Safari/605.1.15",
       "Mozilla/5.0 (Windows NT 10.0; Win64; x64) AppleWebKit/537.36 (KHTML, like Gecko) Chrome/91.0.4472.124 Safari/537.36 Edg/91.0.864.59",
       "Mozilla/5.0 (X11; Linux x86_64) AppleWebKit/537.36 (KHTML, like Gecko) Chrome/91.0.4472.124 Safari/537.36",
       "Mozilla/5.0 (iPhone; CPU iPhone OS 14_6 like Mac OS X) AppleWebKit/605.1.15 (KHTML, like Gecko) CriOS/91.0.4472.80 Mobile/15E148 Safari/604.1",
       "Mozilla/5.0 (iPad; CPU OS 14_6 like Mac OS X) AppleWebKit/605.1.15 (KHTML, like Gecko) CriOS/91.0.4472.80 Mobile/15E148 Safari/604.1",
       "Mozilla/5.0 (Linux; Android 11; SM-G991B) AppleWebKit/537.36 (KHTML, like Gecko) Chrome/91.0.4472.120 Mobile Safari/537.36",
       "Mozilla/5.0 (X11; Ubuntu; Linux x86_64; rv:89.0) Gecko/20100101 Firefox/89.0" >>

\* self.proxies is a public attribute the constructor leaves empty; a caller
\* may fill it before the limiter is used.
ProxyPools == { <<>>, <<"proxy-a", "proxy-b", "proxy-c">> }

NoLocal == [current_time |-> 0, time_since_last |-> 0, recent |-> 0, wake |-> 0, slept |-> 0]

NoArg == [k \in {} |-> 0]

\* DEFAULT_CONFIG["rate_limiter"]: the section the application writes when
\* there is no configuration file.
DefaultStored == [min_delay |-> 1, max_delay |-> 3, rpm_limit |-> 20]

\* ret: the backoff handle_rate_limit_error returns; for reset_error_count and
\* configure the error count the call found; for record_request the number of
\* entries the call found in the log; -1 for a raised ValueError.
Done(name, arg, ret) == [name |-> name, arg |-> arg, ret |-> ret]

Init ==
    /\ config = DefaultConfig
    /\ last_request_time = 0
    /\ request_times = <<>>
    /\ error_count = 0
    /\ current_backoff = DefaultConfig.initial_backoff
    /\ current_user_agent_idx = 0
    /\ current_proxy_idx = 0
    /\ proxies \in ProxyPools
    /\ lock = [owner |-> NoThread, count |-> 0]
    /\ now = StartTime
    /\ pc = [t \in Threads |-> "idle"]
    /\ local = [t \in Threads |-> NoLocal]
    /\ signals = 0
    /\ stored = DefaultStored
    /\ op = Done("init", NoArg, 0)

\* The limiter as constructed, its proxy pool left empty.
InitNoProxies == Init /\ proxies = <<>>

\* Mutant: the method body is entered without taking the lock.
LockFreeIgnoresLock(t) == pc[t] = "idle"

\* Mutant: the lock counts as free while its owner is asleep.
LockFreeWhileAsleep(t) ==
    /\ pc[t] = "idle"
    /\ \/ lock.owner = NoThread
       \/ \E u \in DOMAIN pc : pc[u] \in {"rpm_sleep", "min_sleep", "noise_sleep"}

\* `with self.lock:` entered by a thread that is not inside another method:
\* the RLock is free.  Methods that do not sleep run to their end under the
\* lock and release it, so they are one step.
LockFree(t) == pc[t] = "idle" /\ lock.owner = NoThread

\* ---------------------------------------------------------------- configure

\* Mutant: self.config.update(kwargs), which also stores unknown keys.
ConfigureConfigUpdate(cfg, opts) == opts @@ cfg

\* for key, value in kwargs.items(): if key in self.config: self.config[key] = value
ConfigureConfig(cfg, opts) ==
    [k \in DOMAIN cfg |-> IF k \in DOMAIN opts THEN opts[k] ELSE cfg[k]]

\* Mutant: the state is reset only when a recognized option was supplied.
ConfigureStateIfChanged(cfg, opts, backoff, errors) ==
    IF DOMAIN opts \cap DOMAIN cfg = {}
    THEN [current_backoff |-> backoff, error_count |-> errors]
    ELSE [current_backoff |-> cfg["initial_backoff"], error_count |-> 0]

\* Mutant: the escalated backoff survives a reconfiguration.
ConfigureStateKeepsBackoff(cfg, opts, backoff, errors) ==
    [current_backoff |-> backoff, error_count |-> 0]

\* Mutant: the backoff is reset but the error count survives.
ConfigureStateKeepsErrors(cfg, opts, backoff, errors) ==
    [current_backoff |-> cfg["initial_backoff"], error_count |-> errors]

\* "Reset state if configuration changes": runs after the loop, on every call.
ConfigureState(cfg, opts, backoff, errors) ==
    [current_backoff |-> cfg["initial_backoff"], error_count |-> 0]

Configure(t, opts) ==
    /\ LockFree(t)
    /\ config' = ConfigureConfig(config, opts)
    /\ LET s == ConfigureState(config', opts, current_backoff, error_count)
       IN  /\ current_backoff' = s.current_backoff
           /\ error_count' = s.error_count
    /\ op' = Done("configure", opts, error_count)
    /\ UNCHANGED <<stored, signals, last_request_time, request_times, current_user_agent_idx,
                   current_proxy_idx, proxies, lock, now, pc, local>>

\* ---------------------------------------------------------------- record_request

\* Mutant: a list without maxlen, nothing is dropped.
DequeAppendUnbounded(q, x) == Append(q, x)

\* Mutant: the new entry is not stored.
DequeAppendDropsNew(q, x) == q

\* deque(maxlen=60).append: a full deque drops its leftmost entry.
DequeAppend(q, x) ==
    IF Len(q) >= MaxLen THEN Append(Tail(q), x) ELSE Append(q, x)

\* `from` and `to` are the caller's position before and after the call.
RecordRequest(t, from, to) ==
    /\ pc[t] = from
    /\ lock.owner = NoThread
    /\ request_times' = DequeAppend(request_times, now)
    /\ pc' = [pc EXCEPT ![t] = to]
    /\ op' = Done("record_request", NoArg, Len(request_times))
    /\ UNCHANGED <<stored, signals, config, last_request_time, error_count, current_backoff,
                   current_user_agent_idx, current_proxy_idx, proxies, lock, now, local>>

\* ---------------------------------------------------------------- handle_rate_limit_error

\* Mutant: the jitter is applied to the escalated value.
JitteredBackoffAfterEscalation(backoff, j, cfg) ==
    Min(Min(backoff * cfg["backoff_factor"], cfg["max_backoff"]) * (10 + j),
        cfg["max_backoff"] * 10)

\* backoff = min(current_backoff * (1.0 + uniform(-0.2, 0.2)), max_backoff),
\* in tenths of a second, for the jitter draw j tenths.
JitteredBackoff(backoff, j, cfg) ==
    Min(backoff * (10 + j), cfg["max_backoff"] * 10)

\* Mutant: the escalation forgets the cap.
EscalateUncapped(backoff, cfg) == backoff * cfg["backoff_factor"]

\* current_backoff = min(current_backoff * backoff_factor, max_backoff)
Escalate(backoff, cfg) ==
    Min(backoff * cfg["backoff_factor"], cfg["max_backoff"])

\* Mutant: the modulus is one short, so the last entry is never selected.
RotateUserAgentShort(idx) == (idx + 1) % (Len(user_agents) - 1)

\* self.current_user_agent_idx = (self.current_user_agent_idx + 1) % len(self.user_agents)
RotateUserAgent(idx) == (idx + 1) % Len(user_agents)

\* Mutant: the proxy index is advanced without wrapping round.
RotateProxyUnwrapped(idx, pool) ==
    IF pool = <<>> THEN idx ELSE idx + 1

RotateProxy(idx, pool) ==
    IF pool = <<>> THEN idx ELSE (idx + 1) % Len(pool)

\* Mutant: the proxy is rotated whether or not proxies are in use.
NextProxyIdxAlways(idx, pool, cfg) == RotateProxy(idx, pool)

\* if self.config["use_proxies"]: self._rotate_proxy()
NextProxyIdx(idx, pool, cfg) ==
    IF cfg["use_proxies"] THEN RotateProxy(idx, pool) ELSE idx

HandleRateLimitError(t, j) ==
    /\ LockFree(t)
    /\ error_count' = error_count + 1
    /\ signals' = signals + 1
    /\ current_backoff' = Escalate(current_backoff, config)
    /\ current_user_agent_idx' = RotateUserAgent(current_user_agent_idx)
    /\ current_proxy_idx' = NextProxyIdx(current_proxy_idx, proxies, config)
    /\ op' = Done("handle_rate_limit_error", NoArg,
                  JitteredBackoff(current_backoff, j, config))
    /\ UNCHANGED <<stored, config, last_request_time, request_times, proxies, lock, now, pc, local>>

\* ---------------------------------------------------------------- reset_error_count

\* Mutant: the counter is cleared but the escalated backoff is kept.
ResetStateKeepsBackoff(cfg, backoff, errors) ==
    [current_backoff |-> backoff, error_count |-> 0]

\* Mutant: one error is forgiven per success instead of all of them.
ResetStateDecrement(cfg, backoff, errors) ==
    IF errors > 0
    THEN [current_backoff |-> cfg["initial_backoff"], error_count |-> errors - 1]
    ELSE [current_backoff |-> backoff, error_count |-> errors]

ResetState(cfg, backoff, errors) ==
    IF errors > 0
    THEN [current_backoff |-> cfg["initial_backoff"], error_count |-> 0]
    ELSE [current_backoff |-> backoff, error_count |-> errors]

ResetErrorCount(t) ==
    /\ LockFree(t)
    /\ LET s == ResetState(config, current_backoff, error_count)
       IN  /\ current_backoff' = s.current_backoff
           /\ error_count' = s.error_count
    /\ op' = Done("reset_error_count", NoArg, error_count)
    /\ UNCHANGED <<stored, signals, config, last_request_time, request_times, current_user_agent_idx,
                   current_proxy_idx, proxies, lock, now, pc, local>>

\* get_user_agent: self.user_agents[self.current_user_agent_idx] (0-based)
GetUserAgent(idx) == user_agents[idx + 1]

\* Python's None, returned by get_proxy when no proxy is to be used.
None == "None"

\* Outcome of a list subscript outside the list.
IndexError == "IndexError"

\* list[idx] with a 0-based, non-negative idx
Subscript(list, idx) == IF idx + 1 \in DOMAIN list THEN list[idx + 1] ELSE IndexError

\* Mutant: the pool entry is returned although proxies are not in use.
GetProxyIgnoresFlag(cfg, pool, idx) ==
    IF pool = <<>> THEN None ELSE Subscript(pool, idx)

\* get_proxy
GetProxy(cfg, pool, idx) ==
    IF ~cfg["use_proxies"] \/ pool = <<>> THEN None ELSE Subscript(pool, idx)

\* A thread calls get_proxy: nothing but the result is produced.
CallGetProxy(t) ==
    /\ LockFree(t)
    /\ op' = Done("get_proxy", NoArg, GetProxy(config, proxies, current_proxy_idx))
    /\ UNCHANGED <<stored, config, last_request_time, request_times, error_count, current_backoff,
                   current_user_agent_idx, current_proxy_idx, proxies, lock, now, pc,
                   local, signals>>

\* A thread calls get_user_agent.
CallGetUserAgent(t) ==
    /\ LockFree(t)
    /\ op' = Done("get_user_agent", NoArg,
                  IF current_user_agent_idx + 1 \in DOMAIN user_agents
                  THEN GetUserAgent(current_user_agent_idx) ELSE IndexError)
    /\ UNCHANGED <<stored, config, last_request_time, request_times, error_count, current_backoff,
                   current_user_agent_idx, current_proxy_idx, proxies, lock, now, pc,
                   local, signals>>

\* ---------------------------------------------------------------- wait_if_needed

\* recent_requests = sum(1 for t in self.request_times if t > minute_ago)
RecentRequests(times, current_time) ==
    Cardinality({i \in DOMAIN times : times[i] > current_time - Window})

\* oldest_in_window = min(self.request_times) if self.request_times else minute_ago
OldestInWindow(times, current_time) ==
    IF times # <<>> THEN SeqMin(times) ELSE current_time - Window

\* Mutant: the age of the oldest entry is added instead of subtracted.
RpmWaitTimeSignSlip(times, current_time) ==
    RpmMargin + (current_time - OldestInWindow(times, current_time))

\* Mutant: waits for the window's 60 seconds, without the extra second.
RpmWaitTimeNoMargin(times, current_time) ==
    Window - (current_time - OldestInWindow(times, current_time))

\* wait_time = 61 - (current_time - oldest_in_window)
RpmWaitTime(times, current_time) ==
    RpmMargin - (current_time - OldestInWindow(times, current_time))

\* The duration of the first sleep; 0 when the call does not sleep there.
RpmSleep(times, cfg, current_time) ==
    IF /\ RecentRequests(times, current_time) >= cfg["rpm_limit"]
       /\ RpmWaitTime(times, current_time) > 0
    THEN RpmWaitTime(times, current_time)
    ELSE 0

\* Mutant: sleeps for the elapsed time instead of the remaining time.
MinDelaySleepElapsed(time_since_last, cfg) ==
    IF time_since_last < cfg["min_delay"] THEN time_since_last ELSE 0

\* Mutant: sleeps for the whole min_delay, whatever time has elapsed.
MinDelaySleepWhole(time_since_last, cfg) ==
    IF time_since_last < cfg["min_delay"] THEN cfg["min_delay"] ELSE 0

\* if time_since_last < min_delay: sleep(min_delay - time_since_last)
MinDelaySleep(time_since_last, cfg) ==
    IF time_since_last < cfg["min_delay"]
    THEN cfg["min_delay"] - time_since_last
    ELSE 0

\* random.uniform(min_delay, max_delay): a value between the two, in either order.
NoiseDelays(cfg) ==
    Min(cfg["min_delay"], cfg["max_delay"]) .. Max(cfg["min_delay"], cfg["max_delay"])

\* The draws of random.uniform explored: the two ends of the interval.
NoiseSamples(cfg) == {cfg["min_delay"], cfg["max_delay"]}

InWait == Done("in_wait_if_needed", NoArg, 0)

\* Lines 90-107: take the lock, read the clock, count the window, start the
\* RPM sleep when one is due.
WaitEnter(t) ==
    /\ LockFree(t)
    /\ lock' = [owner |-> t, count |-> 1]
    /\ LET w == RpmSleep(request_times, config, now)
       IN  /\ local' = [local EXCEPT ![t] =
                          [current_time |-> now,
                           time_since_last |-> now - last_request_time,
                           recent |-> RecentRequests(request_times, now),
                           wake |-> now + w,
                           slept |-> w]]
           /\ pc' = [pc EXCEPT ![t] = IF w > 0 THEN "rpm_sleep" ELSE "min_check"]
    /\ op' = InWait
    /\ UNCHANGED <<stored, signals, config, last_request_time, request_times, error_count, current_backoff,
                   current_user_agent_idx, current_proxy_idx, proxies, now>>

\* Lines 109-113: the minimum delay, from the time_since_last computed on entry.
MinCheck(t) ==
    /\ pc[t] = "min_check"
    /\ LET w == MinDelaySleep(local[t].time_since_last, config)
       IN  /\ local' = [local EXCEPT ![t].wake = now + w, ![t].slept = @ + w]
           /\ pc' = [pc EXCEPT ![t] = IF local[t].time_since_last < config["min_delay"]
                                      THEN "min_sleep" ELSE "noise_check"]
    /\ op' = InWait
    /\ UNCHANGED <<stored, signals, config, last_request_time, request_times, error_count, current_backoff,
                   current_user_agent_idx, current_proxy_idx, proxies, lock, now>>

\* Lines 115-122: with probability 0.2 (`draw`) sleep for d in [min_delay, max_delay].
\* time.sleep raises ValueError for a negative d: the with-block releases the
\* lock and the call ends without writing last_request_time (ret = -1).
NoiseCheck(t, draw, d) ==
    /\ pc[t] = "noise_check"
    /\ d \in NoiseDelays(config)
    /\ IF draw /\ d < 0
       THEN /\ pc' = [pc EXCEPT ![t] = "idle"]
            /\ local' = [local EXCEPT ![t] = NoLocal]
            /\ lock' = [owner |-> NoThread, count |-> 0]
            /\ op' = Done("wait_if_needed", NoArg, -1)
       ELSE /\ pc' = [pc EXCEPT ![t] = IF draw THEN "noise_sleep" ELSE "finish"]
            /\ local' = IF draw
                        THEN [local EXCEPT ![t].wake = now + d, ![t].slept = @ + d]
                        ELSE local
            /\ op' = InWait
            /\ UNCHANGED lock
    /\ UNCHANGED <<stored, signals, config, last_request_time, request_times, error_count, current_backoff,
                   current_user_agent_idx, current_proxy_idx, proxies, now>>

Sleeping(t) == pc[t] \in {"rpm_sleep", "min_sleep", "noise_sleep"}

\* Mutant: the call ends after the minimum-delay sleep, without the noise draw.
AfterSleepSkipsNoise(p) ==
    CASE p = "rpm_sleep" -> "min_check"
      [] p = "min_sleep" -> "finish"
      [] p = "noise_sleep" -> "finish"

AfterSleep(p) ==
    CASE p = "rpm_sleep" -> "min_check"
      [] p = "min_sleep" -> "noise_check"
      [] p = "noise_sleep" -> "finish"

\* Mutant: a sleep returns at once.
SleepOverAtOnce(wake, clock) == TRUE

\* time.sleep(d) returns once at least d seconds have passed.
SleepOver(wake, clock) == clock >= wake

SleepReturn(t) ==
    /\ Sleeping(t)
    /\ SleepOver(local[t].wake, now)
    /\ pc' = [pc EXCEPT ![t] = AfterSleep(pc[t])]
    /\ op' = InWait
    /\ UNCHANGED <<stored, signals, config, last_request_time, request_times, error_count, current_backoff,
                   current_user_agent_idx, current_proxy_idx, proxies, lock, now, local>>

\* Lines 124-125 and the end of the with-block; `to` is the caller's next position.
WaitReturn(t, to) ==
    /\ pc[t] = "finish"
    /\ last_request_time' = now
    /\ lock' = [owner |-> NoThread, count |-> 0]
    /\ pc' = [pc EXCEPT ![t] = to]
    /\ local' = [local EXCEPT ![t] = NoLocal]
    /\ op' = Done("wait_if_needed", NoArg, 0)
    /\ UNCHANGED <<stored, signals, config, request_times, error_count, current_backoff,
                   current_user_agent_idx, current_proxy_idx, proxies, now>>

\* ---------------------------------------------------------------- get_request_stats

\* Mutant: every stored timestamp is counted, whatever its age.
GetRequestStatsCountsAll(times, cfg, errors, backoff, last, current_time) ==
    [requests_last_minute |-> Len(times),
     rpm_limit            |-> cfg["rpm_limit"],
     error_count          |-> errors,
     current_backoff      |-> backoff,
     last_request_time    |-> last,
     time_since_last      |-> IF last # 0 THEN <<current_time - last>> ELSE <<>>]

\* Mutant: the elapsed time is computed also when last_request_time is unset.
GetRequestStatsAlwaysElapsed(times, cfg, errors, backoff, last, current_time) ==
    [requests_last_minute |-> RecentRequests(times, current_time),
     rpm_limit            |-> cfg["rpm_limit"],
     error_count          |-> errors,
     current_backoff      |-> backoff,
     last_request_time    |-> last,
     time_since_last      |-> <<current_time - last>>]

\* The dictionary get_request_stats returns.  time_since_last is a number or
\* None: <<v>> stands for the number v and << >> for None.
GetRequestStats(times, cfg, errors, backoff, last, current_time) ==
    [requests_last_minute |-> RecentRequests(times, current_time),
     rpm_limit            |-> cfg["rpm_limit"],
     error_count          |-> errors,
     current_backoff      |-> backoff,
     last_request_time    |-> last,
     time_since_last      |-> IF last # 0 THEN <<current_time - last>> ELSE <<>>]

\* A thread calls get_request_stats.
CallGetRequestStats(t) ==
    /\ LockFree(t)
    /\ op' = Done("get_request_stats", NoArg,
                  GetRequestStats(request_times, config, error_count, current_backoff,
                                  last_request_time, now))
    /\ UNCHANGED <<stored, config, last_request_time, request_times, error_count, current_backoff,
                   current_user_agent_idx, current_proxy_idx, proxies, lock, now, pc,
                   local, signals>>

\* ---------------------------------------------------------------- get_backoff_time

\* A thread calls get_backoff_time: return self.current_backoff
CallGetBackoffTime(t) ==
    /\ LockFree(t)
    /\ op' = Done("get_backoff_time", NoArg, current_backoff)
    /\ UNCHANGED <<stored, config, last_request_time, request_times, error_count, current_backoff,
                   current_user_agent_idx, current_proxy_idx, proxies, lock, now, pc,
                   local, signals>>

\* ---------------------------------------------------------------- the clock

\* The clock moves forward by one of the steps, or up to the moment a sleeping
\* thread is due to wake.
TickSteps(base) ==
    base \cup {local[t].wake - now : t \in {u \in Threads : Sleeping(u)}}

Tick(d, horizon) ==
    /\ d > 0
    /\ now + d <= StartTime + horizon
    /\ now' = now + d
    /\ op' = Done("tick", NoArg, 0)
    /\ UNCHANGED <<stored, signals, config, last_request_time, request_times, error_count, current_backoff,
                   current_user_agent_idx, current_proxy_idx, proxies, lock, pc, local>>

\* The system clock is set back by d seconds.  time.sleep measures its
\* duration on the monotonic clock, so the jump is taken while no thread sleeps.
ClockBack(d, floor) ==
    /\ d > 0
    /\ now - d >= StartTime - floor
    /\ \A t \in Threads : ~Sleeping(t)
    /\ now' = now - d
    /\ op' = Done("clock_back", NoArg, 0)
    /\ UNCHANGED <<stored, signals, config, last_request_time, request_times, error_count, current_backoff,
                   current_user_agent_idx, current_proxy_idx, proxies, lock, pc, local>>

\* ---------------------------------------------------------------- callers

\* The caller validates before configure: the tunables in force satisfy
\* 0 <= min_delay <= max_delay, rpm_limit >= 1, 0 < initial_backoff <= max_backoff,
\* backoff_factor > 1.
ValidConfig(cfg) ==
    /\ 0 <= cfg["min_delay"] /\ cfg["min_delay"] <= cfg["max_delay"]
    /\ cfg["rpm_limit"] >= 1
    /\ 0 < cfg["initial_backoff"] /\ cfg["initial_backoff"] <= cfg["max_backoff"]
    /\ cfg["backoff_factor"] > 1

Jitters == (0 - JitterTenths) .. JitterTenths

\* Option sets passed to configure: none, unrecognized keys only, single
\* fields, groups of fields.
SpecOptions ==
    { NoArg,
      ("retries" :> 3),
      ("rpm_limit" :> 1) @@ ("retries" :> 3),
      ("rpm_limit" :> 5),
      ("max_backoff" :> 7),
      ("initial_backoff" :> 2) @@ ("backoff_factor" :> 3) }

SpecTicks == {}

\* Any thread calls any method at any time.
Next ==
    \/ \E t \in Threads, opts \in SpecOptions :
          ValidConfig(ConfigureConfig(config, opts)) /\ Configure(t, opts)
    \/ \E t \in Threads : Len(request_times) < MaxLog /\ RecordRequest(t, "idle", "idle")
    \/ \E t \in Threads, j \in Jitters : signals < MaxSignals /\ HandleRateLimitError(t, j)
    \/ \E t \in Threads : ResetErrorCount(t)
    \/ \E t \in Threads : WaitEnter(t)
    \/ \E t \in Threads : MinCheck(t)
    \/ \E t \in Threads, draw \in BOOLEAN, d \in NoiseSamples(config) : NoiseCheck(t, draw, d)
    \/ \E t \in Threads : SleepReturn(t)
    \/ \E t \in Threads : WaitReturn(t, "idle")
    \/ \E t \in Threads : CallGetUserAgent(t)
    \/ \E t \in Threads : CallGetProxy(t)
    \/ \E t \in Threads : CallGetRequestStats(t)
    \/ \E d \in TickSteps(SpecTicks) : Tick(d, Horizon)

Spec == Init /\ [][Next]_vars

\* ---------------------------------------------------------------- backoff only

BackoffOptions ==
    { NoArg,
      ("retries" :> 3),
      ("max_backoff" :> 7),
      ("initial_backoff" :> 2) @@ ("backoff_factor" :> 3),
      ("initial_backoff" :> 10) @@ ("max_backoff" :> 45),
      ("use_proxies" :> TRUE) }

\* Throttle signals, resets and reconfiguration; no request is paced.
NextBackoff ==
    \/ \E t \in Threads, opts \in BackoffOptions :
          ValidConfig(ConfigureConfig(config, opts)) /\ Configure(t, opts)
    \/ \E t \in Threads, j \in Jitters : signals < BackoffSignals /\ HandleRateLimitError(t, j)
    \/ \E t \in Threads : ResetErrorCount(t)
    \/ \E t \in Threads : CallGetProxy(t)
    \/ \E t \in Threads : CallGetUserAgent(t)

SpecBackoff == Init /\ [][NextBackoff]_vars

\* ---------------------------------------------------------------- bursts of requests

BurstOptions == { ("rpm_limit" :> 5) }

BurstTicks == {30}

\* Number of entries of the log stamped with the present instant.
StampedNow == Cardinality({i \in DOMAIN request_times : request_times[i] = now})

\* Requests are recorded in bursts, more than the log can hold, and the
\* statistics are read in between; no request is paced.
NextBurst ==
    \/ \E t \in Threads : StampedNow < BurstPerInstant /\ RecordRequest(t, "idle", "idle")
    \/ \E t \in Threads : CallGetRequestStats(t)
    \/ \E t \in Threads, opts \in BurstOptions : Configure(t, opts)
    \/ \E t \in Threads : ResetErrorCount(t)
    \/ \E d \in BurstTicks : Tick(d, BurstHorizon)

SpecBurst == InitNoProxies /\ [][NextBurst]_vars

\* ---------------------------------------------------------------- pacing only

PacingOptions ==
    { ("min_delay" :> 0) @@ ("max_delay" :> 0) @@ ("rpm_limit" :> 1),
      ("min_delay" :> 2) @@ ("max_delay" :> 4),
      ("rpm_limit" :> 2) @@ ("min_delay" :> 4) @@ ("max_delay" :> 4) }

\* The application configures the limiter when it starts (load_config), before
\* any request is paced.
Configured == config # DefaultConfig

PacingTicks == {61}

\* Threads pace and record requests and change the pacing tunables.
NextPacing ==
    \/ \E t \in Threads, opts \in PacingOptions :
          ValidConfig(ConfigureConfig(config, opts)) /\ Configure(t, opts)
    \/ \E t \in Threads : Len(request_times) < PacingLog /\ RecordRequest(t, "idle", "idle")
    \/ \E t \in Threads : Configured /\ WaitEnter(t)
    \/ \E t \in Threads : MinCheck(t)
    \/ \E t \in Threads, draw \in BOOLEAN, d \in NoiseSamples(config) : NoiseCheck(t, draw, d)
    \/ \E t \in Threads : SleepReturn(t)
    \/ \E t \in Threads : WaitReturn(t, "idle")
    \/ \E d \in TickSteps(PacingTicks) : Tick(d, PacingHorizon)

SpecPacing == InitNoProxies /\ [][NextPacing]_vars

\* ---------------------------------------------------------------- one worker

\* The scrape worker of the specification: it configures the limiter before
\* its first request, then for every request calls wait_if_needed, issues the
\* request and calls record_request.
Worker == "t1"

WorkerOptions ==
    { ("rpm_limit" :> 1),
      ("rpm_limit" :> 2),
      ("min_delay" :> 0) @@ ("max_delay" :> 0) }

WorkerTicks == {61}

Startup == request_times = <<>> /\ last_request_time = 0

NextWorker ==
    \/ \E opts \in WorkerOptions :
          /\ Startup
          /\ ValidConfig(ConfigureConfig(config, opts))
          /\ Configure(Worker, opts)
    \/ Len(request_times) < WorkerLog /\ WaitEnter(Worker)
    \/ MinCheck(Worker)
    \/ \E draw \in BOOLEAN, d \in NoiseSamples(config) : NoiseCheck(Worker, draw, d)
    \/ SleepReturn(Worker)
    \/ WaitReturn(Worker, "issue")
    \/ RecordRequest(Worker, "issue", "idle")
    \/ \E d \in TickSteps(WorkerTicks) : Tick(d, WorkerHorizon)

SpecWorker == InitNoProxies /\ [][NextWorker]_vars

\* ---------------------------------------------------------------- an unsteady clock

\* The values load_config passes on from the stored configuration, which it
\* does not validate.
ClockOptions ==
    { ("min_delay" :> 0) @@ ("max_delay" :> 0) @@ ("rpm_limit" :> 1),
      ("min_delay" :> 2) @@ ("max_delay" :> 4) @@ ("rpm_limit" :> 20),
      ("min_delay" :> (0 - 2)) @@ ("max_delay" :> (0 - 1)) @@ ("rpm_limit" :> 20),
      ("min_delay" :> 2 * StartTime) @@ ("max_delay" :> 2 * StartTime) @@ ("rpm_limit" :> 20) }

ClockJumps == {5}

\* One worker paces and records its requests after the stored configuration
\* was applied at start-up, while the system clock is set back now and then.
NextClock ==
    \/ \E opts \in ClockOptions : Startup /\ ~Configured /\ Configure(Worker, opts)
    \/ Configured /\ WaitEnter(Worker)
    \/ MinCheck(Worker)
    \/ \E draw \in BOOLEAN, d \in NoiseSamples(config) : NoiseCheck(Worker, draw, d)
    \/ SleepReturn(Worker)
    \/ WaitReturn(Worker, "idle")
    \/ Len(request_times) < ClockLog /\ RecordRequest(Worker, "idle", "idle")
    \/ \E d \in TickSteps({}) : Tick(d, ClockHorizon)
    \/ \E d \in ClockJumps : ClockBack(d, ClockFloor)

SpecClock == InitNoProxies /\ [][NextClock]_vars

\* ---------------------------------------------------------------- the end-to-end scenario

\* configure(min_delay=0, max_delay=0, rpm_limit=N)
ScenarioOptions ==
    { ("min_delay" :> 0) @@ ("max_delay" :> 0) @@ ("rpm_limit" :> n) : n \in 1 .. ScenarioLimit }

ScenarioTicks == {20}

\* A fresh throttle is configured once, requests are recorded without pacing
\* and wait_if_needed is called in between.
NextScenario ==
    \/ \E t \in Threads, opts \in ScenarioOptions :
          Startup /\ ~Configured /\ Configure(t, opts)
    \/ \E t \in Threads :
          Configured /\ Len(request_times) < ScenarioLimit /\ RecordRequest(t, "idle", "idle")
    \/ \E t \in Threads : Configured /\ WaitEnter(t)
    \/ \E t \in Threads : MinCheck(t)
    \/ \E t \in Threads, draw \in BOOLEAN, d \in NoiseSamples(config) : NoiseCheck(t, draw, d)
    \/ \E t \in Threads : SleepReturn(t)
    \/ \E t \in Threads : WaitReturn(t, "idle")
    \/ \E d \in TickSteps(ScenarioTicks) : Tick(d, ScenarioHorizon)

SpecScenario == InitNoProxies /\ [][NextScenario]_vars

\* ---------------------------------------------------------------- reconfiguration in mid-run

LifecycleOptions ==
    { NoArg,
      ("use_proxies" :> TRUE),
      ("rpm_limit" :> 5) @@ ("initial_backoff" :> 2) }

\* The throttle is reconfigured at any moment of a run in which a worker
\* paces and records requests and throttle signals arrive.
NextLifecycle ==
    \/ \E t \in Threads, opts \in LifecycleOptions : Configure(t, opts)
    \/ \E t \in Threads, j \in {0} :
          signals < LifecycleSignals /\ HandleRateLimitError(t, j)
    \/ Len(request_times) < LifecycleLog /\ RecordRequest(Worker, "idle", "idle")
    \/ WaitEnter(Worker)
    \/ MinCheck(Worker)
    \/ \E draw \in BOOLEAN, d \in NoiseSamples(config) : NoiseCheck(Worker, draw, d)
    \/ SleepReturn(Worker)
    \/ WaitReturn(Worker, "idle")
    \/ \E t \in Threads : CallGetRequestStats(t)
    \/ \E t \in Threads : CallGetUserAgent(t)
    \/ \E t \in Threads : CallGetProxy(t)
    \/ \E t \in Threads : CallGetBackoffTime(t)
    \/ \E d \in TickSteps({}) : Tick(d, LifecycleHorizon)

SpecLifecycle == Init /\ [][NextLifecycle]_vars

\* ---------------------------------------------------------------- second by second

ElapsedOptions ==
    { ("min_delay" :> 0) @@ ("max_delay" :> 0),
      ("min_delay" :> 2) @@ ("max_delay" :> 4),
      ("min_delay" :> 4) @@ ("max_delay" :> 4) }

ElapsedTicks == {1}

\* One worker paces its requests while the clock advances second by second;
\* rpm_limit keeps its default, far above the number of requests.
NextElapsed ==
    \/ \E opts \in ElapsedOptions : Configure(Worker, opts)
    \/ Len(request_times) < ElapsedLog /\ RecordRequest(Worker, "idle", "idle")
    \/ WaitEnter(Worker)
    \/ MinCheck(Worker)
    \/ \E draw \in BOOLEAN, d \in NoiseSamples(config) : NoiseCheck(Worker, draw, d)
    \/ SleepReturn(Worker)
    \/ WaitReturn(Worker, "idle")
    \/ \E d \in TickSteps(ElapsedTicks) : Tick(d, ElapsedHorizon)

SpecElapsed == InitNoProxies /\ [][NextElapsed]_vars

\* ---------------------------------------------------------------- the application

\* The application after RateLimiter() (line 72) with the configuration file
\* it finds on disk.
StoredFiles ==
    { DefaultStored,
      [min_delay |-> 2, max_delay |-> 4, rpm_limit |-> 5],
      [min_delay |-> 0 - 1, max_delay |-> 3, rpm_limit |-> 20],
      [min_delay |-> 1, max_delay |-> 3, rpm_limit |-> 0],
      [min_delay |-> 5, max_delay |-> 3, rpm_limit |-> 20] }

InitApp ==
    /\ config = DefaultConfig
    /\ last_request_time = 0
    /\ request_times = <<>>
    /\ error_count = 0
    /\ current_backoff = DefaultConfig.initial_backoff
    /\ current_user_agent_idx = 0
    /\ current_proxy_idx = 0
    /\ proxies = <<>>
    /\ lock = [owner |-> NoThread, count |-> 0]
    /\ now = StartTime
    /\ pc = [t \in Threads |-> "idle"]
    /\ local = [t \in Threads |-> NoLocal]
    /\ signals = 0
    /\ stored \in StoredFiles
    /\ op = Done("init", NoArg, 0)

\* load_config, called once by the constructor of the application: the stored
\* values go to the form and from there to configure.
LoadConfig(t) ==
    /\ op.name = "init"
    /\ Configure(t, stored)

\* The numbers typed into the settings form.
FormValues ==
    { [min_delay |-> 1, max_delay |-> 3, rpm_limit |-> 20],
      [min_delay |-> 0, max_delay |-> 0, rpm_limit |-> 1],
      [min_delay |-> 2, max_delay |-> 2, rpm_limit |-> 60],
      [min_delay |-> 0 - 1, max_delay |-> 3, rpm_limit |-> 20],
      [min_delay |-> 1, max_delay |-> 0 - 3, rpm_limit |-> 20],
      [min_delay |-> 1, max_delay |-> 3, rpm_limit |-> 0],
      [min_delay |-> 4, max_delay |-> 3, rpm_limit |-> 20] }

\* The two checks of save_settings, both passed.
SettingsAccepted(s) ==
    /\ ~(s.min_delay < 0 \/ s.max_delay < 0 \/ s.rpm_limit < 1)
    /\ ~(s.min_delay > s.max_delay)

\* save_settings with numeric form values: a rejection shows an error box and
\* returns (ret = -1); otherwise the values are stored and passed to configure.
SaveSettings(t, form) ==
    /\ op.name # "init"
    /\ LockFree(t)
    /\ IF SettingsAccepted(form)
       THEN /\ stored' = form
            /\ config' = ConfigureConfig(config, form)
            /\ LET s == ConfigureState(config', form, current_backoff, error_count)
               IN  /\ current_backoff' = s.current_backoff
                   /\ error_count' = s.error_count
            /\ op' = Done("save_settings", form, 0)
       ELSE /\ UNCHANGED <<stored, config, current_backoff, error_count>>
            /\ op' = Done("save_settings", form, -1)
    /\ UNCHANGED <<signals, last_request_time, request_times, current_user_agent_idx,
                   current_proxy_idx, proxies, lock, now, pc, local>>

\* The application loads its configuration, the user saves settings, and
\* throttle signals arrive in between.
NextApp ==
    \/ \E t \in Threads : LoadConfig(t)
    \/ \E t \in Threads, form \in FormValues : SaveSettings(t, form)
    \/ \E t \in Threads, j \in {0} :
          op.name # "init" /\ signals < AppSignals /\ HandleRateLimitError(t, j)

SpecApp == InitApp /\ [][NextApp]_vars

\* ---------------------------------------------------------------- handle_rate_limit_error, statement by statement

InHandle == Done("in_handle_rate_limit_error", NoArg, 0)

\* Mutant: the with-block is entered whoever holds the lock.
ReentrantIgnoresLock(t) == TRUE

\* Mutant: a plain Lock, which its own holder cannot take again.
ReentrantPlainLock(t) == lock.owner = NoThread

\* self.lock = threading.RLock(): free, or already held by the caller.
Reentrant(t) == lock.owner \in {NoThread, t}

\* The lock after `with self.lock:` is entered by t.
Acquired(t) == [owner |-> t, count |-> lock.count + 1]

\* The lock after a with-block of its holder is left.
Released ==
    IF lock.count > 1
    THEN [owner |-> lock.owner, count |-> lock.count - 1]
    ELSE [owner |-> NoThread, count |-> 0]

\* handle_rate_limit_error is called: the thread arrives at line 142.
HandleCall(t) ==
    /\ pc[t] = "idle"
    /\ pc' = [pc EXCEPT ![t] = "handle_call"]
    /\ op' = InHandle
    /\ UNCHANGED <<stored, signals, config, last_request_time, request_times, error_count,
                   current_backoff, current_user_agent_idx, current_proxy_idx, proxies, lock,
                   now, local>>

\* Line 142: with self.lock
HandleEnter(t) ==
    /\ pc[t] = "handle_call"
    /\ Reentrant(t)
    /\ lock' = Acquired(t)
    /\ pc' = [pc EXCEPT ![t] = "handle_load"]
    /\ local' = [local EXCEPT ![t] = [errors |-> 0, backoff |-> 0]]
    /\ op' = InHandle
    /\ UNCHANGED <<stored, signals, config, last_request_time, request_times, error_count,
                   current_backoff, current_user_agent_idx, current_proxy_idx, proxies, now>>

\* Line 144, self.error_count += 1: the attribute is read ...
HandleLoad(t) ==
    /\ pc[t] = "handle_load"
    /\ local' = [local EXCEPT ![t].errors = error_count]
    /\ pc' = [pc EXCEPT ![t] = "handle_store"]
    /\ op' = InHandle
    /\ UNCHANGED <<stored, signals, config, last_request_time, request_times, error_count,
                   current_backoff, current_user_agent_idx, current_proxy_idx, proxies, lock, now>>

\* ... and written back, one higher.
HandleStore(t) ==
    /\ pc[t] = "handle_store"
    /\ error_count' = local[t].errors + 1
    /\ pc' = [pc EXCEPT ![t] = "handle_backoff"]
    /\ op' = InHandle
    /\ UNCHANGED <<stored, signals, config, last_request_time, request_times,
                   current_backoff, current_user_agent_idx, current_proxy_idx, proxies, lock,
                   now, local>>

\* Lines 147-150: the duration to return, from the backoff not yet escalated.
HandleBackoff(t, j) ==
    /\ pc[t] = "handle_backoff"
    /\ local' = [local EXCEPT ![t].backoff = JitteredBackoff(current_backoff, j, config)]
    /\ pc' = [pc EXCEPT ![t] = "handle_escalate"]
    /\ op' = InHandle
    /\ UNCHANGED <<stored, signals, config, last_request_time, request_times, error_count,
                   current_backoff, current_user_agent_idx, current_proxy_idx, proxies, lock, now>>

\* Lines 153-156
HandleEscalate(t) ==
    /\ pc[t] = "handle_escalate"
    /\ current_backoff' = Escalate(current_backoff, config)
    /\ pc' = [pc EXCEPT ![t] = "rotate_user_agent"]
    /\ op' = InHandle
    /\ UNCHANGED <<stored, signals, config, last_request_time, request_times, error_count,
                   current_user_agent_idx, current_proxy_idx, proxies, lock, now, local>>

\* Lines 157 and 218: _rotate_user_agent is called and takes the lock again.
RotateUserAgentEnter(t) ==
    /\ pc[t] = "rotate_user_agent"
    /\ Reentrant(t)
    /\ lock' = Acquired(t)
    /\ pc' = [pc EXCEPT ![t] = "user_agent_write"]
    /\ op' = InHandle
    /\ UNCHANGED <<stored, signals, config, last_request_time, request_times, error_count,
                   current_backoff, current_user_agent_idx, current_proxy_idx, proxies, now,
                   local>>

\* Lines 219-220 and the end of the inner with-block; line 159 chooses what follows.
RotateUserAgentWrite(t) ==
    /\ pc[t] = "user_agent_write"
    /\ current_user_agent_idx' = RotateUserAgent(current_user_agent_idx)
    /\ lock' = Released
    /\ pc' = [pc EXCEPT ![t] = IF config["use_proxies"]
                               THEN "rotate_proxy" ELSE "handle_return"]
    /\ op' = InHandle
    /\ UNCHANGED <<stored, signals, config, last_request_time, request_times, error_count,
                   current_backoff, current_proxy_idx, proxies, now, local>>

\* Lines 160 and 199: _rotate_proxy is called and takes the lock again.
RotateProxyEnter(t) ==
    /\ pc[t] = "rotate_proxy"
    /\ Reentrant(t)
    /\ lock' = Acquired(t)
    /\ pc' = [pc EXCEPT ![t] = "proxy_write"]
    /\ op' = InHandle
    /\ UNCHANGED <<stored, signals, config, last_request_time, request_times, error_count,
                   current_backoff, current_user_agent_idx, current_proxy_idx, proxies, now,
                   local>>

\* Lines 200-204 and the end of the inner with-block.
RotateProxyWrite(t) ==
    /\ pc[t] = "proxy_write"
    /\ current_proxy_idx' = RotateProxy(current_proxy_idx, proxies)
    /\ lock' = Released
    /\ pc' = [pc EXCEPT ![t] = "handle_return"]
    /\ op' = InHandle
    /\ UNCHANGED <<stored, signals, config, last_request_time, request_times, error_count,
                   current_backoff, current_user_agent_idx, proxies, now, local>>

\* Line 164 and the end of the outer with-block.
HandleReturn(t) ==
    /\ pc[t] = "handle_return"
    /\ lock' = Released
    /\ signals' = signals + 1
    /\ pc' = [pc EXCEPT ![t] = "idle"]
    /\ local' = [local EXCEPT ![t] = NoLocal]
    /\ op' = Done("handle_rate_limit_error", NoArg, local[t].backoff)
    /\ UNCHANGED <<stored, config, last_request_time, request_times, error_count,
                   current_backoff, current_user_agent_idx, current_proxy_idx, proxies, now>>

\* The calls of handle_rate_limit_error under way.
InHandleCall == {t \in Threads : pc[t] \in {"handle_call", "handle_load", "handle_store", "handle_backoff",
                                             "handle_escalate", "rotate_user_agent",
                                             "user_agent_write", "rotate_proxy",
                                             "proxy_write", "handle_return"}}

HandleSteps(t) ==
    \/ HandleEnter(t)
    \/ HandleLoad(t)
    \/ HandleStore(t)
    \/ \E j \in Jitters : HandleBackoff(t, j)
    \/ HandleEscalate(t)
    \/ RotateUserAgentEnter(t)
    \/ RotateUserAgentWrite(t)
    \/ RotateProxyEnter(t)
    \/ RotateProxyWrite(t)
    \/ HandleReturn(t)

ThreadOptions ==
    { ("use_proxies" :> TRUE),
      ("initial_backoff" :> 2) @@ ("max_backoff" :> 7),
      ("use_proxies" :> FALSE) @@ ("backoff_factor" :> 3) }

\* Threads report throttle signals side by side; configure and
\* reset_error_count are called between them.
NextThreads ==
    \/ \E t \in Threads, opts \in ThreadOptions : Configure(t, opts)
    \/ \E t \in Threads : ResetErrorCount(t)
    \/ \E t \in Threads :
          signals + Cardinality(InHandleCall) < ThreadSignals /\ HandleCall(t)
    \/ \E t \in Threads : HandleSteps(t)

SpecThreads == Init /\ [][NextThreads]_vars

\* ---------------------------------------------------------------- a limit above the log's capacity

CeilingOptions ==
    { ("min_delay" :> 0) @@ ("max_delay" :> 0) @@ ("rpm_limit" :> MaxLen + 1) }

CeilingTicks == {30}

\* One worker, configured for more requests per minute than the log holds,
\* records requests in bursts and paces in between.
NextCeiling ==
    \/ \E opts \in CeilingOptions : Startup /\ ~Configured /\ Configure(Worker, opts)
    \/ /\ Configured
       /\ StampedNow < CeilingPerInstant
       /\ RecordRequest(Worker, "idle", "idle")
    \/ Configured /\ WaitEnter(Worker)
    \/ MinCheck(Worker)
    \/ \E draw \in BOOLEAN, d \in NoiseSamples(config) : NoiseCheck(Worker, draw, d)
    \/ SleepReturn(Worker)
    \/ WaitReturn(Worker, "idle")
    \/ \E d \in TickSteps(CeilingTicks) : Tick(d, CeilingHorizon)

SpecCeiling == InitNoProxies /\ [][NextCeiling]_vars

\* ---------------------------------------------------------------- threads under fair scheduling

LiveOptions ==
    { ("rpm_limit" :> 1) @@ ("min_delay" :> 0) @@ ("max_delay" :> 2),
      ("rpm_limit" :> 1) @@ ("min_delay" :> 2) @@ ("max_delay" :> 2)
         @@ ("use_proxies" :> TRUE) }

\* The calls of wait_if_needed under way and the requests about to be recorded.
InPacedRequest ==
    {t \in Threads : pc[t] \in {"rpm_sleep", "min_check", "min_sleep", "noise_check",
                                 "noise_sleep", "finish", "issue"}}

\* What a thread that has called a method does next.
ThreadStep(t) ==
    \/ HandleSteps(t)
    \/ MinCheck(t)
    \/ \E draw \in BOOLEAN, d \in NoiseSamples(config) : NoiseCheck(t, draw, d)
    \/ SleepReturn(t)
    \/ WaitReturn(t, "issue")
    \/ RecordRequest(t, "issue", "idle")

\* Time passes until the next sleeper is due.
LiveTick == \E d \in TickSteps({}) : Tick(d, LiveHorizon)

\* Threads pace requests and report throttle signals side by side.
NextLive ==
    \/ \E t \in Threads, opts \in LiveOptions :
          ValidConfig(ConfigureConfig(config, opts)) /\ Startup /\ Configure(t, opts)
    \/ \E t \in Threads :
          signals + Cardinality(InHandleCall) < LiveSignals /\ HandleCall(t)
    \/ \E t \in Threads :
          /\ Configured
          /\ Len(request_times) + Cardinality(InPacedRequest) < LiveLog
          /\ WaitEnter(t)
    \/ \E t \in Threads : ThreadStep(t)
    \/ LiveTick

\* Every thread that can take a step eventually takes one, and time passes.
SpecLive ==
    /\ Init
    /\ [][NextLive]_vars
    /\ \A t \in Threads : WF_vars(ThreadStep(t))
    /\ WF_vars(LiveTick)

\* ================================================================ claims

\* C1: RPM ceiling.  For a worker that calls wait_if_needed before and
\* record_request after every request, under a fixed valid configuration,
\* the number of logged timestamps within the trailing 60 seconds never
\* exceeds rpm_limit.
C1_RpmCeiling ==
    ValidConfig(config) => RecentRequests(request_times, now) <= config["rpm_limit"]

\* C2: a wait_if_needed call that found rpm_limit requests within the last
\* 60 seconds has blocked for a duration > 0 when it is about to return.
C2_BlocksAtLimit ==
    \A t \in Threads :
        (/\ pc[t] = "finish"
         /\ ValidConfig(config)
         /\ local[t].recent = config["rpm_limit"])
        => local[t].slept > 0

\* The step on which a wait_if_needed call writes last_request_time and returns.
WaitCompletes == \E t \in Threads : pc[t] = "finish" /\ pc'[t] # "finish"

\* C3: minimum-delay floor.  When a wait_if_needed call completes after an
\* earlier one (by any thread), the last_request_time it writes is at least
\* min_delay later than the one the earlier call wrote.
C3_MinDelayFloor ==
    [][(WaitCompletes /\ last_request_time > 0)
          => last_request_time' >= last_request_time + config["min_delay"]]_vars

\* A second call is about to complete after the floor made it sleep.
C3_Witness ==
    \E t \in Threads :
        /\ pc[t] = "finish"
        /\ last_request_time > 0
        /\ config["min_delay"] > 0
        /\ local[t].time_since_last < config["min_delay"]
        /\ now = last_request_time + config["min_delay"]

\* The step made by a handle_rate_limit_error call.
SignalHandled == signals' = signals + 1

\* The backoff tunables of the constructor: 5.0, 2.0, 300.0.
DefaultBackoffParams ==
    /\ config["initial_backoff"] = 5
    /\ config["backoff_factor"] = 2
    /\ config["max_backoff"] = 300

\* 5, 10, 20, 40, 80, 160, 300, 300, ...: the value after k signals.
ExampleSequence(k) ==
    IF k >= 6 THEN 300 ELSE <<5, 10, 20, 40, 80, 160>>[k + 1]

\* C4: monotonic escalation.  Every handle_rate_limit_error call leaves
\* current_backoff no smaller than before and <= max_backoff, and at
\* max_backoff it stays there; with 5 / 2 / 300 the value after k consecutive
\* signals is the k-th of 5, 10, 20, 40, 80, 160, 300, 300, ...
C4_MonotonicEscalation ==
    /\ [][SignalHandled =>
            /\ current_backoff' >= current_backoff
            /\ current_backoff' <= config["max_backoff"]
            /\ (current_backoff = config["max_backoff"]
                   => current_backoff' = config["max_backoff"])]_vars
    /\ [](DefaultBackoffParams => current_backoff = ExampleSequence(error_count))

\* Eight consecutive signals under 5 / 2 / 300: the cap was reached and kept.
C4_Witness ==
    /\ DefaultBackoffParams
    /\ error_count = 8
    /\ current_backoff = 300

\* C5: in every reachable state current_backoff lies within
\* [initial_backoff, max_backoff] of the configuration in force.
C5_BackoffWithinBounds ==
    ValidConfig(config) =>
        /\ config["initial_backoff"] <= current_backoff
        /\ current_backoff <= config["max_backoff"]

\* Escalated to a reconfigured cap while a request is logged and a thread is
\* inside wait_if_needed.
C5_Witness ==
    /\ config["max_backoff"] = 7
    /\ config["initial_backoff"] = 2
    /\ current_backoff = 7
    /\ error_count = 2
    /\ request_times # <<>>
    /\ \E t \in Threads : pc[t] # "idle"

\* C6: the duration handle_rate_limit_error returns (op.ret, in tenths of a
\* second) is min(b * j, max_backoff) for the current_backoff b before the
\* call and a factor j in [0.8, 1.2]: it lies between min(0.8 b, max_backoff)
\* and min(1.2 b, max_backoff), so never above max_backoff and, when
\* 0.8 b <= max_backoff, never below 0.8 initial_backoff; the call does not
\* sleep.
C6_ReturnedBackoff ==
    [][SignalHandled =>
         /\ op'.name = "handle_rate_limit_error"
         /\ op'.ret >= Min(8 * current_backoff, 10 * config["max_backoff"])
         /\ op'.ret <= Min(12 * current_backoff, 10 * config["max_backoff"])
         /\ op'.ret <= 10 * config["max_backoff"]
         /\ (8 * current_backoff <= 10 * config["max_backoff"]
                => op'.ret >= 8 * config["initial_backoff"])
         /\ now' = now
         /\ pc' = pc]_vars

\* The seventh signal under 5 / 2 / 300 found current_backoff = 300 and drew a
\* factor above 1: the returned duration is capped at 300.0 s.
C6_Witness ==
    /\ op.name = "handle_rate_limit_error"
    /\ DefaultBackoffParams
    /\ error_count = 7
    /\ op.ret = 3000

\* C7: reset_error_count sets error_count to 0 and current_backoff to
\* initial_backoff when error_count > 0 and changes neither otherwise;
\* applying it again to the state it leaves changes nothing (idempotence).
C7_ResetOnSuccess ==
    [][op'.name = "reset_error_count" =>
         /\ (error_count > 0 =>
                /\ error_count' = 0
                /\ current_backoff' = config["initial_backoff"])
         /\ (error_count = 0 =>
                /\ error_count' = 0
                /\ current_backoff' = current_backoff)
         /\ ResetState(config', current_backoff', error_count')
               = [current_backoff |-> current_backoff', error_count |-> error_count']]_vars

\* A reset that found two errors under reconfigured backoff tunables.
C7_Witness ==
    /\ op.name = "reset_error_count"
    /\ op.ret = 2
    /\ error_count = 0
    /\ config["initial_backoff"] = 2
    /\ current_backoff = 2

\* C8: whatever options configure is given (none, or only unrecognized keys,
\* included) it leaves error_count = 0 and current_backoff equal to the
\* initial_backoff then in force, the supplied one when one is supplied.
C8_ConfigureResets ==
    [][op'.name = "configure" =>
         /\ error_count' = 0
         /\ current_backoff' = config'["initial_backoff"]
         /\ ("initial_backoff" \in DOMAIN op'.arg
                => current_backoff' = op'.arg["initial_backoff"])]_vars

\* configure() with no option at all, called after two throttle signals.
C8_Witness ==
    /\ op.name = "configure"
    /\ DOMAIN op.arg = {}
    /\ op.ret = 2
    /\ error_count = 0
    /\ current_backoff = config["initial_backoff"]

\* C9: configure overwrites exactly the configuration fields named in its
\* options, leaves every other field as it was, and never adds a key;
\* configure(rpm_limit=5) gives rpm_limit = 5 and keeps min_delay.
C9_ConfigureFrame ==
    [][op'.name = "configure" =>
         /\ DOMAIN config' = DOMAIN config
         /\ \A k \in DOMAIN config :
               config'[k] = IF k \in DOMAIN op'.arg THEN op'.arg[k] ELSE config[k]
         /\ (DOMAIN op'.arg = {"rpm_limit"} =>
                /\ config'["rpm_limit"] = op'.arg["rpm_limit"]
                /\ config'["min_delay"] = config["min_delay"])]_vars

\* configure(rpm_limit=5) after max_backoff was set to 7: both are in force.
C9_Witness ==
    /\ op.name = "configure"
    /\ DOMAIN op.arg = {"rpm_limit"}
    /\ config["rpm_limit"] = 5
    /\ config["max_backoff"] = 7
    /\ config["min_delay"] = DefaultConfig["min_delay"]
    /\ DOMAIN config = DOMAIN DefaultConfig

\* C10: identity rotation is cyclic.  The pool holds 10 pairwise distinct
\* entries; every handle_rate_limit_error call advances the index by one
\* modulo 10, so the identity after the call differs from the one before; the
\* index is the number of calls modulo 10, back at its start after 10 calls.
C10_CyclicRotation ==
    /\ [][SignalHandled =>
            /\ current_user_agent_idx' = (current_user_agent_idx + 1) % 10
            /\ GetUserAgent(current_user_agent_idx') # GetUserAgent(current_user_agent_idx)]_vars
    /\ [](/\ Len(user_agents) = 10
          /\ \A i, k \in 1 .. 10 : i # k => user_agents[i] # user_agents[k]
          /\ current_user_agent_idx = signals % 10
          /\ (signals \in 1 .. 9 => current_user_agent_idx # 0)
          /\ (signals = 10 => current_user_agent_idx = 0))

\* The tenth call brought the index back to the first identity.
C10_Witness ==
    /\ op.name = "handle_rate_limit_error"
    /\ signals = 10
    /\ current_user_agent_idx = 0

\* C11: handle_rate_limit_error advances current_proxy_idx by one modulo the
\* pool size exactly when use_proxies is set and the pool is not empty, and
\* leaves it unchanged otherwise; the user-agent index is advanced either way.
C11_ProxyRotation ==
    [][SignalHandled =>
         /\ ((config["use_proxies"] /\ proxies # <<>>)
                => current_proxy_idx' = (current_proxy_idx + 1) % Len(proxies))
         /\ (~(config["use_proxies"] /\ proxies # <<>>)
                => current_proxy_idx' = current_proxy_idx)
         /\ current_user_agent_idx' = (current_user_agent_idx + 1) % Len(user_agents)
         /\ current_user_agent_idx' # current_user_agent_idx]_vars

\* Two signals with proxies in use moved the proxy index to the third entry.
C11_Witness ==
    /\ op.name = "handle_rate_limit_error"
    /\ config["use_proxies"]
    /\ Len(proxies) = 3
    /\ current_proxy_idx = 2

\* C12: get_proxy returns None whenever use_proxies is off or the pool is
\* empty and the pool entry at current_proxy_idx otherwise; get_user_agent
\* returns the entry of user_agents at current_user_agent_idx; with the pool
\* fixed both indices stay inside their lists, so neither subscript fails.
C12_Accessors ==
    /\ [][/\ op'.name = "get_proxy" =>
               /\ op'.ret # IndexError
               /\ op'.ret = IF ~config["use_proxies"] \/ proxies = <<>>
                            THEN None
                            ELSE proxies[current_proxy_idx + 1]
          /\ op'.name = "get_user_agent" =>
               /\ op'.ret # IndexError
               /\ op'.ret = user_agents[current_user_agent_idx + 1]]_vars
    /\ [](/\ current_user_agent_idx \in 0 .. Len(user_agents) - 1
          /\ proxies # <<>> => current_proxy_idx \in 0 .. Len(proxies) - 1
          /\ proxies = <<>> => current_proxy_idx = 0)

\* get_proxy returned the third pool entry after two rotations.
C12_Witness ==
    /\ op.name = "get_proxy"
    /\ op.ret = "proxy-c"
    /\ current_proxy_idx = 2
    /\ current_user_agent_idx = 5

\* C13: request_times never holds more than 60 entries; record_request
\* appends the current time and, when 60 are held, drops exactly the oldest;
\* no other operation changes the log, so it always is the most recent
\* min(n, 60) recorded timestamps in the order they were recorded.
C13_BoundedLog ==
    /\ [](Len(request_times) <= 60)
    /\ [][op'.name = "record_request" =>
            request_times' = IF Len(request_times) = 60
                             THEN Append(Tail(request_times), now)
                             ELSE Append(request_times, now)]_vars
    /\ [][op'.name # "record_request" => request_times' = request_times]_vars

\* A request was recorded into a full log: the oldest entry, stamped 1000,
\* is gone and 60 entries remain.
C13_Witness ==
    /\ op.name = "record_request"
    /\ op.ret = 60
    /\ Len(request_times) = 60
    /\ request_times[1] = StartTime + 30
    /\ request_times[60] = StartTime + 60

\* C14: get_request_stats reports as requests_last_minute the number of
\* stored timestamps t with now - 60 < t, which never exceeds 60.
C14_RequestsLastMinute ==
    [][op'.name = "get_request_stats" =>
         /\ op'.ret.requests_last_minute =
               Cardinality({i \in DOMAIN request_times : now - 60 < request_times[i]})
         /\ op'.ret.requests_last_minute <= 60]_vars

\* The statistics were read with a full log of which some entries are older
\* than a minute.
C14_Witness ==
    /\ op.name = "get_request_stats"
    /\ Len(request_times) = 60
    /\ op.ret.requests_last_minute = 45
    /\ request_times[1] = StartTime

\* C15: error_count is a non-negative integer; handle_rate_limit_error raises
\* it by exactly one and nothing else raises it; reset_error_count and
\* configure leave it at 0 and nothing else lowers it; wait_if_needed,
\* record_request, the accessors and the passage of time never change it.
C15_ErrorCountFrame ==
    /\ [](error_count \in Nat)
    /\ [][op'.name = "handle_rate_limit_error" => error_count' = error_count + 1]_vars
    /\ [][op'.name \in {"reset_error_count", "configure"} => error_count' = 0]_vars
    /\ [][op'.name \notin {"handle_rate_limit_error", "reset_error_count", "configure"}
            => error_count' = error_count]_vars

\* Two signals were counted and a later wait_if_needed left the count alone.
C15_Witness ==
    /\ op.name = "wait_if_needed"
    /\ error_count = 2
    /\ signals = 2

\* A thread is inside the body of wait_if_needed, between taking the lock and
\* releasing it.
Inside(t) == pc[t] # "idle"

\* C16: the bodies of configure, wait_if_needed, record_request,
\* handle_rate_limit_error and reset_error_count exclude each other: at most
\* one thread is inside wait_if_needed and it owns the lock; a one-step method
\* or an accessor runs only while no thread is inside and the lock is free;
\* the write of last_request_time is made by the owner of the lock.
C16_MutualExclusion ==
    /\ [](\A t, u \in Threads : Inside(t) /\ Inside(u) => t = u)
    /\ [](\A t \in Threads : Inside(t) <=> lock.owner = t)
    /\ [](lock.owner = NoThread <=> lock.count = 0)
    /\ [][op'.name \in {"configure", "record_request", "handle_rate_limit_error",
                        "reset_error_count", "get_user_agent", "get_proxy",
                        "get_request_stats"}
            => /\ lock.owner = NoThread
               /\ \A t \in Threads : ~Inside(t)
               /\ lock' = lock]_vars
    /\ [][last_request_time' # last_request_time
            => \E t \in Threads : lock.owner = t /\ pc[t] = "finish" /\ ~Inside(t)']_vars

\* One thread sleeps inside wait_if_needed, owning the lock, after an earlier
\* call has completed; the other thread is outside.
C16_Witness ==
    /\ pc["t1"] = "min_sleep"
    /\ lock.owner = "t1"
    /\ pc["t2"] = "idle"
    /\ last_request_time > 0

\* A thread is in a timed sleep of wait_if_needed that has not yet elapsed.
Asleep(u) == Sleeping(u) /\ ~SleepOver(local[u].wake, now)

\* C17: only wait_if_needed suspends its caller: a thread that is outside
\* every method can run configure, record_request, handle_rate_limit_error,
\* reset_error_count, get_user_agent, get_proxy and get_request_stats to
\* their end at once, without the clock having to advance, also while
\* another thread is asleep inside wait_if_needed.
C17_OnlyWaitSuspends ==
    \A t \in Threads :
        (pc[t] = "idle" /\ \A u \in Threads \ {t} : pc[u] = "idle" \/ Asleep(u))
        => /\ ENABLED Configure(t, NoArg)
           /\ ENABLED RecordRequest(t, "idle", "idle")
           /\ ENABLED HandleRateLimitError(t, 0)
           /\ ENABLED ResetErrorCount(t)
           /\ ENABLED CallGetUserAgent(t)
           /\ ENABLED CallGetProxy(t)
           /\ ENABLED CallGetRequestStats(t)

\* C18: wait_if_needed never sleeps for a negative duration and never raises,
\* whatever the state and the clock reading, also when the clock was set back
\* behind last_request_time or behind logged timestamps: each sleep it starts
\* ends no earlier than it starts, and every call returns normally.
C18_NoNegativeSleep ==
    /\ [][\A t \in Threads : (~Sleeping(t) /\ Sleeping(t)') => local'[t].wake >= now']_vars
    /\ [](op.name = "wait_if_needed" => op.ret # -1)

\* The log holds exactly rpm_limit entries, all stamped with the same instant,
\* on a throttle with min_delay = max_delay = 0 that has not paced a request.
BurstOfLimit ==
    /\ config["min_delay"] = 0 /\ config["max_delay"] = 0
    /\ Len(request_times) = config["rpm_limit"]
    /\ \A i \in DOMAIN request_times : request_times[i] = request_times[1]
    /\ last_request_time = 0

\* C19: on a fresh throttle with min_delay = 0, max_delay = 0 and
\* rpm_limit = N, after N record_request calls at one instant s the next
\* wait_if_needed, entered while these are inside the window, sleeps for
\* 61 - (now - s), does not return before s + 61, and at its return fewer than
\* N logged timestamps lie in the trailing 60 seconds.
C19_EndToEnd ==
    /\ [][\A t \in Threads :
            (/\ BurstOfLimit
             /\ pc[t] = "idle" /\ pc'[t] # "idle"
             /\ now - request_times[1] < 60)
            => /\ pc'[t] = "rpm_sleep"
               /\ local'[t].slept = 61 - (now - request_times[1])
               /\ local'[t].wake = request_times[1] + 61]_vars
    /\ [][\A t \in Threads :
            (/\ BurstOfLimit
             /\ pc[t] = "finish" /\ pc'[t] = "idle"
             /\ local[t].recent = config["rpm_limit"])
            => /\ now >= request_times[1] + 61
               /\ Cardinality({i \in DOMAIN request_times : request_times[i] > now - 60})
                     < config["rpm_limit"]
               /\ op'.ret = 0]_vars

\* The wait after three requests recorded at one instant has returned, 61
\* seconds after that instant.
C19_Witness ==
    /\ op.name = "wait_if_needed"
    /\ config["rpm_limit"] = 3
    /\ request_times = <<StartTime + 20, StartTime + 20, StartTime + 20>>
    /\ last_request_time = StartTime + 81

\* C20 as stated: every configure call resets the whole pacing state to its
\* initial values: error_count, current_backoff, request_times,
\* last_request_time and both rotation indices.
C20_ConfigureResetsAll ==
    [][op'.name = "configure" =>
         /\ error_count' = 0
         /\ current_backoff' = config'["initial_backoff"]
         /\ request_times' = <<>>
         /\ last_request_time' = 0
         /\ current_user_agent_idx' = 0
         /\ current_proxy_idx' = 0]_vars

\* C20, amended: a configure call resets error_count to 0 and current_backoff
\* to the initial_backoff in force, and leaves request_times,
\* last_request_time and both rotation indices as they were before the call.
C20_ConfigureResetsEscalationOnly ==
    [][op'.name = "configure" =>
         /\ error_count' = 0
         /\ current_backoff' = config'["initial_backoff"]
         /\ request_times' = request_times
         /\ last_request_time' = last_request_time
         /\ current_user_agent_idx' = current_user_agent_idx
         /\ current_proxy_idx' = current_proxy_idx]_vars

\* configure was called after a paced and recorded request and two throttle
\* signals that rotated user agent and proxy: only the escalation is reset.
C20_Witness ==
    /\ op.name = "configure"
    /\ op.ret = 2
    /\ error_count = 0
    /\ request_times # <<>>
    /\ last_request_time > 0
    /\ current_user_agent_idx = 2
    /\ current_proxy_idx = 2

\* A call of wait_if_needed returns normally in this step.
WaitReturned == op'.name = "wait_if_needed" /\ op'.ret = 0

\* C21: get_request_stats, get_user_agent, get_proxy and get_backoff_time
\* change nothing of the configuration, request_times, last_request_time,
\* error_count, current_backoff and the two rotation indices;
\* get_request_stats reports the rpm_limit, error_count, current_backoff and
\* last_request_time of the moment, and its time_since_last is None exactly
\* when no wait_if_needed has completed: last_request_time is 0 at
\* construction, becomes non-zero when wait_if_needed returns, and changes
\* between zero and non-zero in no other step.
C21_ReadOnlyAccessors ==
    /\ [][op'.name \in {"get_request_stats", "get_user_agent", "get_proxy",
                        "get_backoff_time"}
            => UNCHANGED <<config, request_times, last_request_time, error_count,
                           current_backoff, current_user_agent_idx, current_proxy_idx>>]_vars
    /\ [][op'.name = "get_request_stats" =>
            /\ op'.ret.rpm_limit = config["rpm_limit"]
            /\ op'.ret.error_count = error_count
            /\ op'.ret.current_backoff = current_backoff
            /\ op'.ret.last_request_time = last_request_time
            /\ (op'.ret.time_since_last = <<>>) <=> (last_request_time = 0)
            /\ (last_request_time # 0
                  => op'.ret.time_since_last = <<now - last_request_time>>)]_vars
    /\ [][op'.name = "get_backoff_time" => op'.ret = current_backoff]_vars
    /\ [](op.name = "init" => last_request_time = 0)
    /\ [][WaitReturned => last_request_time' # 0]_vars
    /\ [][~WaitReturned => ((last_request_time' = 0) <=> (last_request_time = 0))]_vars

\* The statistics were read before any wait_if_needed has completed, after a
\* recorded request and two throttle signals: no elapsed time is reported.
C21_Witness ==
    /\ op.name = "get_request_stats"
    /\ op.ret.time_since_last = <<>>
    /\ op.ret.error_count = 2
    /\ op.ret.requests_last_minute = 1
    /\ op.ret.rpm_limit = 5

\* The timestamps of the log that the window count of a call at time c counts.
Counted(c) == {request_times[i] : i \in {j \in DOMAIN request_times : request_times[j] > c - 60}}

\* The smallest element of a non-empty set of numbers.
SetMin(S) == CHOOSE x \in S : \A y \in S : x <= y

\* C22: when the number of logged timestamps inside the trailing 60 seconds
\* is at least rpm_limit, wait_if_needed computes the RPM wait 61 - (now - o)
\* from the oldest timestamp o among those counted, and sleeps for it exactly
\* when it is positive.
C22_OldestCounted ==
    [][\A t \in Threads :
          (/\ pc[t] = "idle" /\ pc'[t] # "idle"
           /\ Cardinality({i \in DOMAIN request_times : request_times[i] > now - 60})
                 >= config["rpm_limit"]
           /\ Counted(now) # {})
          => LET w == 61 - (now - SetMin(Counted(now)))
             IN  /\ (pc'[t] = "rpm_sleep") <=> (w > 0)
                 /\ (w > 0 => local'[t].wake = now + w)]_vars

\* C23: the minimum-delay check of wait_if_needed that follows an RPM wait
\* (made as that wait ends) goes by the time elapsed since last_request_time
\* at that moment: the call
\* sleeps there exactly when that time is less than min_delay, and then until
\* last_request_time + min_delay; after an RPM wait that lasted min_delay or
\* more since last_request_time no minimum-delay sleep is added.
C23_MinDelayAfterRpmWait ==
    [][\A t \in Threads :
          (/\ pc[t] = "min_check" /\ pc'[t] # "min_check"
           /\ local[t].slept > 0 /\ now = local[t].wake)
          => /\ (pc'[t] = "min_sleep") <=> (now - last_request_time < config["min_delay"])
             /\ (pc'[t] = "min_sleep"
                   => local'[t].wake = last_request_time + config["min_delay"])]_vars

\* C24: without RPM pressure and when the noise delay is not drawn,
\* wait_if_needed sleeps for exactly min_delay - e when the time e elapsed
\* since last_request_time, at the clock reading of the call, is less than
\* min_delay, and does not sleep at all when e >= min_delay.
C24_ExactMinDelay ==
    [][\A t \in Threads :
          (/\ pc[t] = "noise_check" /\ pc'[t] = "finish"
           /\ local[t].recent < config["rpm_limit"])
          => LET e == local[t].current_time - last_request_time
             IN  local[t].slept = IF e < config["min_delay"]
                                  THEN config["min_delay"] - e
                                  ELSE 0]_vars

\* A call made 1 second after the previous one, with min_delay = 4, slept 3
\* seconds and drew no noise delay.
C24_Witness ==
    /\ pc[Worker] = "finish"
    /\ config["min_delay"] = 4
    /\ local[Worker].current_time = last_request_time + 1
    /\ local[Worker].slept = 3
    /\ now = local[Worker].current_time + 3

\* C25: wait_if_needed writes last_request_time once per call, in its last
\* step, and writes the clock reading of that step, which is taken after all
\* the sleeps of the call have run their full length; no other step writes
\* it, and as the clock does not go back it never decreases.
C25_LastRequestTime ==
    /\ [][\A t \in Threads :
            (pc[t] = "finish" /\ pc'[t] = "idle")
            => /\ last_request_time' = now
               /\ now >= local[t].current_time + local[t].slept
               /\ op'.name = "wait_if_needed"]_vars
    /\ [][last_request_time' # last_request_time
            => \E t \in Threads : pc[t] = "finish" /\ pc'[t] = "idle"]_vars
    /\ [][\A t \in Threads :
            (pc[t] # "idle" /\ pc[t] # "finish")
            => last_request_time' = last_request_time]_vars
    /\ [][last_request_time' >= last_request_time]_vars

\* A second call slept 2 seconds for the minimum delay and 4 seconds of noise
\* and wrote the clock reading of its return.
C25_Witness ==
    /\ op.name = "wait_if_needed"
    /\ op.ret = 0
    /\ config["min_delay"] = 2
    /\ last_request_time = StartTime + 6
    /\ now = StartTime + 6

\* C26: wait_if_needed owns the lock from its first step to its return, its
\* sleeps included, so calls of wait_if_needed are serialized: at most one
\* thread is asleep inside it, a thread enters only while no other thread is
\* inside, and what it then reads is the last_request_time left by the calls
\* that have returned.
C26_SerializedWaits ==
    /\ [](\A t \in Threads : Sleeping(t) => (lock.owner = t /\ lock.count = 1))
    /\ [](\A t, u \in Threads : (Sleeping(t) /\ Sleeping(u)) => t = u)
    /\ [][\A t \in Threads :
            (pc[t] = "idle" /\ pc'[t] # "idle")
            => /\ \A u \in Threads \ {t} : pc[u] = "idle"
               /\ local'[t].time_since_last = now - last_request_time]_vars
    /\ [][\A t \in Threads :
            (pc[t] # "idle" /\ pc'[t] # "idle")
            => (lock'.owner = t /\ \A u \in Threads \ {t} : pc'[u] = "idle")]_vars

\* The second thread sleeps its noise delay after its minimum-delay sleep,
\* still owning the lock; the first thread, whose call has returned, is outside.
C26_Witness ==
    /\ pc["t2"] = "noise_sleep"
    /\ lock.owner = "t2"
    /\ pc["t1"] = "idle"
    /\ last_request_time > 0
    /\ local["t2"].slept > config["max_delay"]
    /\ now < local["t2"].wake

\* C27: consistent snapshot.  While a thread is inside wait_if_needed the
\* configuration, request_times and last_request_time do not change, so the
\* window count and the elapsed time it computed on entry and the rpm_limit
\* and min_delay it compares them with belong to one state: at every moment of
\* the call they are the values the present state gives for the clock reading
\* of the call.
C27_ConsistentSnapshot ==
    /\ [][\A t \in Threads :
            (pc[t] # "idle" /\ pc'[t] # "idle")
            => UNCHANGED <<config, request_times, last_request_time>>]_vars
    /\ [](\A t \in Threads :
            pc[t] # "idle"
            => /\ local[t].recent =
                    Cardinality({i \in DOMAIN request_times :
                                    request_times[i] > local[t].current_time - 60})
               /\ local[t].time_since_last = local[t].current_time - last_request_time
               /\ (pc[t] = "rpm_sleep" => local[t].recent >= config["rpm_limit"])
               /\ (pc[t] = "min_sleep"
                     => local[t].time_since_last < config["min_delay"]))

\* A thread has slept through its RPM wait: one request is logged, the limit
\* is 1, and the other thread is outside.
C27_Witness ==
    /\ pc["t1"] = "rpm_sleep"
    /\ pc["t2"] = "idle"
    /\ local["t1"].recent = 1
    /\ config["rpm_limit"] = 1
    /\ Len(request_times) = 1
    /\ now = local["t1"].wake

\* C28: a noise delay that wait_if_needed draws is a duration d with
\* min_delay <= d <= max_delay of the configuration of the moment; the draw
\* comes after the RPM and minimum-delay stages of the call and the delay is
\* over before last_request_time is written.  With min_delay = max_delay = 0
\* and fewer than rpm_limit requests in the window the call sleeps 0 seconds.
C28_NoiseDelay ==
    /\ [][\A t \in Threads :
            (pc[t] = "noise_check" /\ pc'[t] = "noise_sleep")
            => LET d == local'[t].wake - now
               IN  /\ config["min_delay"] <= d /\ d <= config["max_delay"]
                   /\ local'[t].slept = local[t].slept + d
                   /\ UNCHANGED <<config, last_request_time>>]_vars
    /\ [][\A t \in Threads :
            /\ (pc'[t] = "noise_sleep" => pc[t] \in {"noise_check", "noise_sleep"})
            /\ (pc'[t] = "noise_check" => pc[t] \in {"min_check", "min_sleep", "noise_check"})
            /\ (pc[t] \in {"min_check", "min_sleep"}
                  => pc'[t] \in {"min_check", "min_sleep", "noise_check"})
            /\ (pc[t] = "noise_sleep" /\ pc'[t] # "noise_sleep"
                  => pc'[t] = "finish" /\ now >= local[t].wake
                     /\ last_request_time' = last_request_time)]_vars
    /\ [](\A t \in Threads :
            (/\ pc[t] = "finish"
             /\ config["min_delay"] = 0 /\ config["max_delay"] = 0
             /\ local[t].recent < config["rpm_limit"])
            => local[t].slept = 0)

\* The largest noise delay, max_delay = 4, was drawn after a minimum-delay
\* sleep of 2 seconds.
C28_Witness ==
    /\ pc[Worker] = "noise_sleep"
    /\ config["min_delay"] = 2
    /\ config["max_delay"] = 4
    /\ local[Worker].slept = 6
    /\ local[Worker].wake = now + 4

\* C29: on a throttle whose last_request_time is still unset the first
\* wait_if_needed makes no minimum-delay sleep, whatever min_delay is: its
\* minimum-delay check passes straight on to the noise draw; and
\* record_request never writes last_request_time, so requests recorded
\* before that call do not change this.
C29_FreshNoMinDelay ==
    /\ [][\A t \in Threads :
            (pc[t] = "min_check" /\ pc'[t] # "min_check" /\ last_request_time = 0)
            => (pc'[t] = "noise_check" /\ local'[t].slept = local[t].slept)]_vars
    /\ [][op'.name = "record_request" => last_request_time' = last_request_time]_vars

\* C30: record_request changes request_times and nothing else of the state
\* (not last_request_time, error_count, current_backoff or a rotation index)
\* and is not a step of any wait; the steps of wait_if_needed change
\* last_request_time and nothing else, request_times in particular keeps
\* every entry.
C30_IndependentEffects ==
    /\ [][op'.name = "record_request"
            => /\ UNCHANGED <<config, last_request_time, error_count, current_backoff,
                              current_user_agent_idx, current_proxy_idx, now>>
               /\ (Len(request_times) < 60
                     => request_times' = Append(request_times, now))
               /\ \A t \in Threads : ~Sleeping(t) /\ ~Sleeping(t)']_vars
    /\ [][op'.name \in {"in_wait_if_needed", "wait_if_needed"}
            => UNCHANGED <<config, request_times, error_count, current_backoff,
                           current_user_agent_idx, current_proxy_idx, now>>]_vars

\* A request was recorded after a paced call and two throttle signals:
\* last_request_time, the counters and the indices are as they were.
C30_Witness ==
    /\ op.name = "record_request"
    /\ Len(request_times) = 1
    /\ last_request_time > 0
    /\ last_request_time <= request_times[1]
    /\ error_count = 2
    /\ current_user_agent_idx = 2

\* C31: the application never configures the throttle with invalid values:
\* whichever way it calls configure, after loading the stored configuration
\* or on saving the settings, the throttle's min_delay, max_delay and
\* rpm_limit are valid; and a rejected save leaves the stored configuration
\* and the throttle's configuration unchanged.
C31_ValidatedConfigure ==
    /\ [](SettingsAccepted(config))
    /\ [][(op'.name = "save_settings" /\ op'.ret = -1)
            => UNCHANGED <<stored, config>>]_vars

RECURSIVE Power(_, _)
Power(b, n) == IF n <= 0 THEN 1 ELSE b * Power(b, n - 1)

\* C32: with a valid configuration, current_backoff is a function of
\* error_count: min(initial_backoff * backoff_factor^error_count, max_backoff);
\* in particular it is initial_backoff whenever error_count is 0, so a
\* reset_error_count that finds error_count = 0 leaves no escalation behind.
C32_BackoffOfErrorCount ==
    ValidConfig(config) =>
        /\ current_backoff =
              Min(config.initial_backoff * Power(config.backoff_factor, error_count),
                  config.max_backoff)
        /\ error_count = 0 => current_backoff = config.initial_backoff

\* The third or a later signal in a row is the one that reaches the cap.
C32_Witness ==
    /\ ValidConfig(config)
    /\ op.name = "handle_rate_limit_error"
    /\ error_count >= 3
    /\ current_backoff = config.max_backoff
    /\ config.initial_backoff * Power(config.backoff_factor, error_count - 1)
          < config.max_backoff

\* The calls of handle_rate_limit_error that have written error_count, those
\* that have escalated current_backoff, and those that have rotated the
\* identity.
PastIncrement ==
    {t \in InHandleCall : pc[t] \notin {"handle_call", "handle_load", "handle_store"}}

PastEscalation ==
    {t \in PastIncrement : pc[t] \notin {"handle_backoff", "handle_escalate"}}

PastUserAgent ==
    {t \in PastEscalation : pc[t] \notin {"rotate_user_agent", "user_agent_write"}}

\* error_count and the identity index, less the calls that have contributed.
ErrorsBefore == error_count - (signals + Cardinality(PastIncrement))

IdentityBefore ==
    (current_user_agent_idx + ThreadSignals * Len(user_agents)
        - (signals + Cardinality(PastUserAgent))) % Len(user_agents)

\* C33: no update is lost when threads call handle_rate_limit_error side by
\* side: apart from configure and reset_error_count, every step keeps
\* error_count and the identity index equal to their starting values plus the
\* number of calls that have got that far (so k calls end at e + k and
\* (i + k) mod 10); current_backoff has been escalated once per call that got
\* that far; and each call returns a duration jittered from the backoff of the
\* level just below the count it wrote, one level per call.
C33_NoLostUpdates ==
    /\ [][op'.name \notin {"configure", "reset_error_count"} =>
            /\ ErrorsBefore' = ErrorsBefore
            /\ IdentityBefore' = IdentityBefore]_vars
    /\ [](current_backoff =
            Min(config.initial_backoff
                   * Power(config.backoff_factor,
                           error_count - Cardinality(PastIncrement \ PastEscalation)),
                config.max_backoff))
    /\ [][op'.name = "handle_rate_limit_error" =>
            /\ error_count = ErrorsBefore + signals + 1
            /\ \E j \in Jitters :
                  op'.ret = JitteredBackoff(
                               Min(config.initial_backoff
                                      * Power(config.backoff_factor, error_count - 1),
                                   config.max_backoff), j, config)]_vars

\* One thread is about to return from the second call in a row while the
\* other one, having called too, waits for the lock.
C33_Witness ==
    \E t, u \in Threads :
        /\ pc[t] = "handle_return"
        /\ pc[u] = "handle_call"
        /\ signals = 1
        /\ error_count = 2
        /\ current_user_agent_idx = 2

\* C34: whenever wait_if_needed returns, fewer than rpm_limit logged
\* timestamps lie within the trailing 60 seconds, whatever the log held when
\* the call was made.
C34_BelowLimitOnReturn ==
    [][WaitReturned => RecentRequests(request_times, now) < config["rpm_limit"]]_vars

\* C35: the log holds at most 60 timestamps, so with rpm_limit > 60 the
\* in-window count stays below rpm_limit however many requests are recorded,
\* and no wait_if_needed call starts an RPM wait.
C35_NoCeilingAboveSixty ==
    /\ [](config["rpm_limit"] > 60
            => RecentRequests(request_times, now) < config["rpm_limit"])
    /\ [][\A t \in Threads :
            (pc[t] = "idle" /\ pc'[t] # "idle" /\ config["rpm_limit"] > 60)
            => (pc'[t] # "rpm_sleep" /\ local'[t].slept = 0)]_vars

\* A call has passed the RPM test with rpm_limit = 61 and the log full of
\* timestamps of the present instant.
C35_Witness ==
    \E t \in Threads :
        /\ pc[t] = "min_check"
        /\ config["rpm_limit"] = 61
        /\ Len(request_times) = 60
        /\ local[t].recent = 60
        /\ request_times[1] = now
        /\ now > StartTime

\* A thread stands at a with-block it cannot enter.
Blocked(t) ==
    \/ pc[t] = "handle_call" /\ ~ENABLED HandleEnter(t)
    \/ pc[t] = "rotate_user_agent" /\ ~ENABLED RotateUserAgentEnter(t)
    \/ pc[t] = "rotate_proxy" /\ ~ENABLED RotateProxyEnter(t)

\* C36: deadlock freedom and termination.  In no reachable state is every
\* thread blocked; a thread that reaches _rotate_user_agent or _rotate_proxy
\* inside handle_rate_limit_error holds the lock and enters at once; the
\* lock is free, with hold count zero, when an operation returns; and under
\* fair scheduling every call that has started returns.
C36_DeadlockFreedom ==
    /\ [](~(\A t \in Threads : Blocked(t)))
    /\ [](\A t \in Threads :
            pc[t] \in {"rotate_user_agent", "rotate_proxy"}
            => (lock.owner = t /\ lock.count = 1 /\ ~Blocked(t)))
    /\ [][\A t \in Threads :
            (pc[t] \notin {"idle", "issue"} /\ pc'[t] \in {"idle", "issue"})
            => lock' = [owner |-> NoThread, count |-> 0]]_vars
    /\ \A t \in Threads : (pc[t] \notin {"idle", "issue"}) ~> (pc[t] \in {"idle", "issue"})

\* One thread holds the lock twice, inside _rotate_proxy, while the other one
\* waits to enter handle_rate_limit_error after a paced request was recorded.
C36_Witness ==
    \E t, u \in Threads :
        /\ pc[t] = "proxy_write"
        /\ lock = [owner |-> t, count |-> 2]
        /\ pc[u] = "handle_call"
        /\ Len(request_times) > 0

\* C37: bounded stall.  With a clock that does not go back and a valid
\* configuration, a wait_if_needed call sleeps at most 61 seconds for the RPM
\* wait, at most min_delay for the minimum delay and at most max_delay for
\* the noise delay: when it comes to write last_request_time it has slept no
\* more than 61 + min_delay + max_delay seconds in all.
C37_BoundedStall ==
    [][\A t \in Threads :
          ValidConfig(config) =>
            /\ (pc[t] # "rpm_sleep" /\ pc'[t] = "rpm_sleep")
                  => (local'[t].wake - now <= 61 /\ local'[t].slept <= 61)
            /\ (pc[t] # "min_sleep" /\ pc'[t] = "min_sleep")
                  => local'[t].wake - now <= config["min_delay"]
            /\ (pc[t] # "noise_sleep" /\ pc'[t] = "noise_sleep")
                  => local'[t].wake - now <= config["max_delay"]
            /\ (pc[t] # "finish" /\ pc'[t] = "finish")
                  => local'[t].slept <= 61 + config["min_delay"] + config["max_delay"]]_vars

\* A call is about to return after the longest of each of the three sleeps.
C37_Witness ==
    \E t \in Threads :
        /\ pc[t] = "finish"
        /\ ValidConfig(config)
        /\ config["min_delay"] > 0
        /\ local[t].slept = 61 + config["min_delay"] + config["max_delay"]
        /\ now = local[t].current_time + local[t].slept

\* C38: the rotation indices stay in range: 0 <= current_user_agent_idx < 10,
\* the size of the identity pool, and 0 <= current_proxy_idx < max(1, size of
\* the proxy pool); only handle_rate_limit_error changes either of them.
C38_IndicesInRange ==
    /\ [](/\ Len(user_agents) = 10
          /\ 0 <= current_user_agent_idx
          /\ current_user_agent_idx < 10
          /\ 0 <= current_proxy_idx
          /\ current_proxy_idx < Max(1, Len(proxies)))
    /\ [][op'.name # "handle_rate_limit_error"
            => UNCHANGED <<current_user_agent_idx, current_proxy_idx>>]_vars

\* The tenth signal has taken the identity index round to 0 and the ninth
\* rotation of a pool of three proxies has taken the proxy index round to 0.
C38_Witness ==
    /\ op.name = "handle_rate_limit_error"
    /\ signals = 10
    /\ error_count = 9
    /\ current_user_agent_idx = 0
    /\ Len(proxies) = 3
    /\ config["use_proxies"]
    /\ current_proxy_idx = 0

====
